---- MODULE Spec2Model ----
(***************************************************************************)
(* A model of the Lisp interpreter of src/src/Interpreter.ts: the parser,  *)
(* the evaluator (fetch / execute), the native operators, the              *)
(* pretty-printer and the top-level driver.                                *)
(*                                                                         *)
(* Representation.                                                         *)
(*  - A string of the program (a source text, an atom's text, an output    *)
(*    line) is a sequence of one-character strings, so that the code's     *)
(*    character-wise operations (toUpperCase, the C[AD]+R test, indexing   *)
(*    methodName[i], Number()) are computed and not assumed.               *)
(*  - A Value is a record [type, escaped, value] as in the interfaces of   *)
(*    the source.  The parent back-reference is left out: the code only    *)
(*    ever copies it into new values and never reads it for a decision.    *)
(*  - A Native's value is the name of the host function it holds.          *)
(*  - A Memory (a Map<string, Value>) is a function from keys (texts) to   *)
(*    Values.                                                              *)
(*  - Numbers are the integers, +Infinity, -Infinity and NaN.  A finite    *)
(*    non-integer (an inexact quotient) is the kind "frac", whose digits   *)
(*    are not modelled; no program drawn in Init reaches one.              *)
(***************************************************************************)
EXTENDS Integers, Sequences, FiniteSets, TLC

VARIABLES file, flagUseColor, pc, program, statements, memory, i, stdout,
          error, exitCode, executed, log, calls, prev, last

(* file, flagUseColor: the content of the source file and the -useColor   *)
(* flag.  pc: the position of the driver.  program, statements, memory, i *)
(* and stdout are the driver's.  error: the error the catch clause holds. *)
(* exitCode: the status the process ends with.  History: executed (the    *)
(* indices of the statements handed to execute, in order), log and calls  *)
(* (see the evaluator), prev and last (the memory and output before the   *)
(* latest statement, and its outcome).                                    *)
vars == <<file, flagUseColor, pc, program, statements, memory, i, stdout,
          error, exitCode, executed, log, calls, prev, last>>

-----------------------------------------------------------------------------
(* Texts *)

LowerCase ==
  <<"a","b","c","d","e","f","g","h","i","j","k","l","m",
    "n","o","p","q","r","s","t","u","v","w","x","y","z">>

UpperCase ==
  <<"A","B","C","D","E","F","G","H","I","J","K","L","M",
    "N","O","P","Q","R","S","T","U","V","W","X","Y","Z">>

UpperOf ==
  [c \in {LowerCase[k] : k \in 1..26} |->
     UpperCase[CHOOSE k \in 1..26 : LowerCase[k] = c]]

toUpperCaseChar(c) ==
  IF c \in DOMAIN UpperOf THEN UpperOf[c] ELSE c

toUpperCase(text) ==
  [k \in 1..Len(text) |-> toUpperCaseChar(text[k])]

Digits ==
  <<"0","1","2","3","4","5","6","7","8","9">>

IsDigit(c) ==
  \E k \in 1..10 : Digits[k] = c

DigitVal(c) ==
  (CHOOSE k \in 1..10 : Digits[k] = c) - 1

AllDigits(text) ==
  /\ Len(text) > 0
  /\ \A k \in 1..Len(text) : IsDigit(text[k])

RECURSIVE DigitsVal(_)
DigitsVal(text) ==
  IF Len(text) = 0 THEN 0
  ELSE 10 * DigitsVal(SubSeq(text, 1, Len(text) - 1)) + DigitVal(text[Len(text)])

RECURSIVE Pow(_, _)
Pow(b, e) ==
  IF e = 0 THEN 1 ELSE b * Pow(b, e - 1)

(* Numbers *)
Fin(n) ==
  [k |-> "fin", n |-> n]

PosInf ==
  [k |-> "inf", n |-> 1]

NegInf ==
  [k |-> "ninf", n |-> -1]

NaN ==
  [k |-> "nan", n |-> 0]

Frac(sign) ==
  [k |-> "frac", n |-> sign]

InfinityText ==
  <<"I","n","f","i","n","i","t","y">>

NaNText ==
  <<"N","a","N">>

FractionText ==
  <<"<fraction>">>

Abs(n) ==
  IF n < 0 THEN -n ELSE n

Sgn(n) ==
  IF n < 0 THEN -1 ELSE IF n > 0 THEN 1 ELSE 0

(* Number(text) of the host, for a text: an optional sign, then Infinity *)
(* or decimal digits with an optional exponent.  Texts with a decimal    *)
(* point or a radix prefix are not drawn by Init.                        *)
NumberOfText(text) ==
  IF Len(text) = 0 THEN Fin(0)
  ELSE IF text = FractionText THEN Frac(1)
  ELSE
    LET signed == text[1] \in {"+", "-"}
        sg     == IF text[1] = "-" THEN -1 ELSE 1
        body   == IF signed THEN Tail(text) ELSE text
        epos   == {k \in 1..Len(body) : body[k] \in {"e", "E"}}
    IN  IF body = InfinityText THEN (IF sg = 1 THEN PosInf ELSE NegInf)
        ELSE IF epos = {} THEN
          (IF AllDigits(body) THEN Fin(sg * DigitsVal(body)) ELSE NaN)
        ELSE
          LET p     == CHOOSE k \in epos : \A j \in epos : k <= j
              mant  == SubSeq(body, 1, p - 1)
              rest  == SubSeq(body, p + 1, Len(body))
              esign == Len(rest) > 0 /\ rest[1] \in {"+", "-"}
              eneg  == Len(rest) > 0 /\ rest[1] = "-"
              edig  == IF esign THEN Tail(rest) ELSE rest
          IN  IF ~(AllDigits(mant) /\ AllDigits(edig)) THEN NaN
              ELSE LET m == DigitsVal(mant)
                       e == DigitsVal(edig)
                   IN  IF ~eneg THEN Fin(sg * m * Pow(10, e))
                       ELSE IF m % Pow(10, e) = 0 THEN Fin(sg * (m \div Pow(10, e)))
                       ELSE Frac(sg)

RECURSIVE NatText(_)
NatText(n) ==
  IF n < 10 THEN <<Digits[n + 1]>>
  ELSE NatText(n \div 10) \o <<Digits[(n % 10) + 1]>>

(* String(number) of the host *)
StringOf(num) ==
  CASE num.k = "fin"  -> IF num.n < 0 THEN <<"-">> \o NatText(-num.n) ELSE NatText(num.n)
    [] num.k = "inf"  -> InfinityText
    [] num.k = "ninf" -> <<"-">> \o InfinityText
    [] num.k = "nan"  -> NaNText
    [] OTHER          -> FractionText

isNaN(num) ==
  num.k = "nan"

-----------------------------------------------------------------------------
(* Values *)

Atom(escaped, text) ==
  [type |-> "ATOM", escaped |-> escaped, value |-> text]

List(escaped, elements) ==
  [type |-> "LIST", escaped |-> escaped, value |-> elements]

Method(name, params, body) ==
  [type |-> "METHOD", escaped |-> FALSE, value |-> <<name, params, body>>]

Native(fname) ==
  [type |-> "NATIVE", escaped |-> FALSE, value |-> fname]

-----------------------------------------------------------------------------
(* parse *)

NoAtom ==
  Atom(FALSE, <<>>)

ParseInit ==
  [ok |-> TRUE, msg |-> <<>>, hasAtom |-> FALSE, atom |-> NoAtom,
   escaped |-> FALSE, open |-> <<>>, statements |-> <<>>]

ParseError(st, msg) ==
  [st EXCEPT !.ok = FALSE, !.msg = msg]

(* push a parameter to the value of the innermost open list *)
PushTop(open, p) ==
  [open EXCEPT ![Len(open)].value = Append(@, p)]

(* One iteration of the loop of parse.  The open lists (list, list.parent, *)
(* ...) are the stack `open`, innermost last; a list is appended to its    *)
(* parent when it closes, which puts it where the code's push at "(" put   *)
(* it, since nothing is pushed to the parent while the child is open.      *)
ParseStep(st, cursor) ==
  LET n == Len(st.open) IN
  CASE cursor = "'" ->
         IF st.hasAtom THEN ParseError(st, <<"Cannot escape in the middle of an atom.">>)
         ELSE [st EXCEPT !.escaped = TRUE]
    [] cursor = "(" ->
         LET flushed == IF n > 0 /\ st.hasAtom THEN PushTop(st.open, st.atom) ELSE st.open
         IN  [st EXCEPT !.open = Append(flushed, List(st.escaped, <<>>)),
                        !.hasAtom = IF n > 0 THEN FALSE ELSE @,
                        !.escaped = FALSE]
    [] cursor = ")" ->
         IF n = 0 THEN ParseError(st, <<"Unexpected closing parenthesis.">>)
         ELSE LET flushed == IF st.hasAtom THEN PushTop(st.open, st.atom) ELSE st.open
                  closed  == flushed[n]
                  outer   == SubSeq(flushed, 1, n - 1)
              IN  [st EXCEPT !.open = IF n = 1 THEN outer ELSE PushTop(outer, closed),
                             !.statements = IF n = 1 THEN Append(@, closed) ELSE @,
                             !.hasAtom = FALSE]
    [] cursor = " " ->
         IF st.hasAtom
         THEN IF n = 0 THEN ParseError(st, <<"Cannot declare atom outside of a statement.">>)
              ELSE [st EXCEPT !.open = PushTop(st.open, st.atom), !.hasAtom = FALSE]
         ELSE st
    [] OTHER ->
         IF ~st.hasAtom
         THEN IF n = 0 THEN ParseError(st, <<"Cannot declare atom outside of a statement.">>)
              ELSE [st EXCEPT !.hasAtom = TRUE,
                              !.atom = Atom(st.escaped \/ st.open[n].escaped, <<cursor>>),
                              !.escaped = FALSE]
         ELSE [st EXCEPT !.atom.value = Append(@, cursor)]

(* the loop of parse over src[lo..hi]; a throw ends it.  The range is *)
(* halved so that the evaluation stays shallow on long texts.         *)
RECURSIVE ParseLoop(_, _, _, _)
ParseLoop(st, src, lo, hi) ==
  IF lo > hi \/ ~st.ok THEN st
  ELSE IF lo = hi THEN ParseStep(st, src[lo])
  ELSE LET mid == (lo + hi) \div 2
       IN  ParseLoop(ParseLoop(st, src, lo, mid), src, mid + 1, hi)

(* parse without the test of line 88: a list still open after the last *)
(* character is dropped silently                                        *)
parseUnclosed(src) ==
  LET st == ParseLoop(ParseInit, src, 1, Len(src))
  IN  IF ~st.ok THEN [ok |-> FALSE, msg |-> st.msg, statements |-> <<>>]
      ELSE [ok |-> TRUE, msg |-> <<>>, statements |-> st.statements]

parse(src) ==
  LET st == ParseLoop(ParseInit, src, 1, Len(src))
  IN  IF ~st.ok THEN [ok |-> FALSE, msg |-> st.msg, statements |-> <<>>]
      ELSE IF Len(st.open) > 0
      THEN [ok |-> FALSE, msg |-> <<"Unclosed statement.">>, statements |-> <<>>]
      ELSE [ok |-> TRUE, msg |-> <<>>, statements |-> st.statements]

-----------------------------------------------------------------------------
(* The evaluator.  An operation of the code takes a Memory and may write   *)
(* to it and to standard output, and returns a Value or throws.  Here it   *)
(* takes the state s = [mem, out, color, log, calls, depth] and returns    *)
(* [ok, val, s, msg]: ok = FALSE is a throw, and s is then the state at    *)
(* the throw.  s.mem is the Map the operation was handed, s.out standard   *)
(* output and s.color the constant flagUseColor; log, calls and depth are  *)
(* history: the lists that execute applied, the Method applications that   *)
(* returned, and the number of open Method calls.                          *)

kTRUE ==
  <<"T","R","U","E">>

kNIL ==
  <<"N","I","L">>

kCAR ==
  <<"C","A","R">>

kCDR ==
  <<"C","D","R">>

Ok(val, s) ==
  [ok |-> TRUE, val |-> val, s |-> s, msg |-> <<>>]

Err(msg, s) ==
  [ok |-> FALSE, val |-> List(FALSE, <<>>), s |-> s, msg |-> msg]

MapSet(mem, key, val) ==
  [k \in DOMAIN mem \cup {key} |-> IF k = key THEN val ELSE mem[k]]

getNil ==
  List(FALSE, <<>>)

getTrue ==
  Atom(FALSE, kTRUE)

isTrue(parameter) ==
  parameter.type = "ATOM" /\ toUpperCase(parameter.value) = kTRUE

isNil(parameter) ==
  parameter.type = "LIST" /\ Len(parameter.value) = 0

(* Number(v.value): the text of an atom is parsed; the array of a list or *)
(* of a Method is joined to a string first ("" when empty, else one       *)
(* "[object Object]" per element); the function of a Native is NaN.       *)
NumberOfValue(v) ==
  CASE v.type = "ATOM" -> NumberOfText(v.value)
    [] v.type = "LIST" -> IF Len(v.value) = 0 THEN Fin(0) ELSE NaN
    [] OTHER           -> NaN

(* Arithmetic of the host on the numbers of the model *)
NumNeg(a) ==
  CASE a.k = "fin"  -> Fin(-a.n)
    [] a.k = "inf"  -> NegInf
    [] a.k = "ninf" -> PosInf
    [] OTHER        -> [a EXCEPT !.n = -a.n]

NumSign(a) ==
  Sgn(a.n)

Infinite(a) ==
  a.k \in {"inf", "ninf"}

SignedInf(sign) ==
  IF sign < 0 THEN NegInf ELSE PosInf

NumAdd(a, b) ==
  CASE a.k = "nan" \/ b.k = "nan"        -> NaN
    [] Infinite(a) /\ Infinite(b)        -> IF a.k = b.k THEN a ELSE NaN
    [] Infinite(a)                       -> a
    [] Infinite(b)                       -> b
    [] a.k = "fin" /\ b.k = "fin"        -> Fin(a.n + b.n)
    [] OTHER                             -> Frac(1)

NumSub(a, b) ==
  NumAdd(a, NumNeg(b))

NumMul(a, b) ==
  CASE a.k = "nan" \/ b.k = "nan"        -> NaN
    [] Infinite(a) \/ Infinite(b)        ->
         IF NumSign(a) * NumSign(b) = 0 THEN NaN ELSE SignedInf(NumSign(a) * NumSign(b))
    [] a.k = "fin" /\ b.k = "fin"        -> Fin(a.n * b.n)
    [] OTHER                             -> Frac(NumSign(a) * NumSign(b))

NumDiv(a, b) ==
  CASE a.k = "nan" \/ b.k = "nan"        -> NaN
    [] Infinite(a) /\ Infinite(b)        -> NaN
    [] Infinite(a)                       -> SignedInf(NumSign(a) * (IF NumSign(b) < 0 THEN -1 ELSE 1))
    [] Infinite(b)                       -> Fin(0)
    [] a.k = "fin" /\ b.k = "fin"        ->
         IF b.n = 0 THEN (IF a.n = 0 THEN NaN ELSE SignedInf(a.n))
         ELSE IF Abs(a.n) % Abs(b.n) = 0
              THEN Fin(Sgn(a.n) * Sgn(b.n) * (Abs(a.n) \div Abs(b.n)))
              ELSE Frac(Sgn(a.n) * Sgn(b.n))
    [] OTHER                             -> Frac(NumSign(a) * NumSign(b))

NumPow(a, b) ==
  CASE b.k = "nan"                       -> NaN
    [] b.k = "fin" /\ b.n = 0            -> Fin(1)
    [] a.k = "nan"                       -> NaN
    [] Infinite(b)                       ->
         IF a.k = "fin" /\ Abs(a.n) = 1 THEN NaN
         ELSE IF (b.k = "inf") = (Infinite(a) \/ a.k = "frac" \/ Abs(a.n) > 1)
              THEN PosInf ELSE Fin(0)
    [] a.k = "inf"                       -> IF NumSign(b) > 0 THEN PosInf ELSE Fin(0)
    [] a.k = "ninf"                      ->
         IF NumSign(b) < 0 THEN Fin(0)
         ELSE IF b.k = "fin" /\ b.n % 2 = 1 THEN NegInf ELSE PosInf
    [] a.k = "fin" /\ b.k = "fin"        ->
         IF b.n > 0 THEN Fin(Pow(a.n, b.n))
         ELSE IF a.n = 0 THEN PosInf
         ELSE IF Abs(a.n) = 1 THEN Fin(Pow(a.n, -b.n))
         ELSE Frac(IF a.n < 0 /\ b.n % 2 = 1 THEN -1 ELSE 1)
    [] OTHER                             -> Frac(1)

NumEq(a, b) ==
  a.k # "nan" /\ b.k # "nan" /\ a = b

-----------------------------------------------------------------------------
(* fetch, execute, toString and the natives *)

(* Call(fname, args, s) is the call of the function fname of the program *)
(* on args, for fetch, execute, toString and the natives                  *)
RECURSIVE Call(_, _, _)
RECURSIVE CadrLoop(_, _, _, _, _, _), NumericLoop(_, _, _, _, _), PrintLoop(_, _, _)
RECURSIVE JoinElements(_, _, _, _, _)

WithMem(s, mem) ==
  [s EXCEPT !.mem = mem]

Write(s, text) ==
  [s EXCEPT !.out = @ \o text]

CountMsg(fname, expected, parameters) ==
  <<fname, ": Expected ", expected, ", got ">> \o NatText(Len(parameters)) \o <<" instead.">>

(* fetch without the second fetch of what execute returned *)
fetchOnce(parameter, s) ==
  IF /\ parameter.type = "ATOM"
     /\ ~parameter.escaped
     /\ toUpperCase(parameter.value) # kTRUE
     /\ toUpperCase(parameter.value) # kNIL
     /\ isNaN(NumberOfText(parameter.value))
  THEN LET key == toUpperCase(parameter.value)
       IN  IF key \in DOMAIN s.mem THEN Ok(s.mem[key], s)
           ELSE Err(<<"Unknown variable '">> \o parameter.value \o <<"'.">>, s)
  ELSE IF parameter.type = "ATOM" /\ toUpperCase(parameter.value) = kNIL
  THEN Ok(List(FALSE, <<>>), s)
  ELSE IF parameter.type = "LIST" /\ ~parameter.escaped /\ Len(parameter.value) > 0
  THEN Call("execute", <<parameter>>, s)
  ELSE Ok(parameter, s)

fetch(parameter, s) ==
  IF /\ parameter.type = "ATOM"
     /\ ~parameter.escaped
     /\ toUpperCase(parameter.value) # kTRUE
     /\ toUpperCase(parameter.value) # kNIL
     /\ isNaN(NumberOfText(parameter.value))
  THEN LET key == toUpperCase(parameter.value)
       IN  IF key \in DOMAIN s.mem THEN Ok(s.mem[key], s)
           ELSE Err(<<"Unknown variable '">> \o parameter.value \o <<"'.">>, s)
  ELSE IF parameter.type = "ATOM" /\ toUpperCase(parameter.value) = kNIL
  THEN Ok(List(FALSE, <<>>), s)
  ELSE IF parameter.type = "LIST" /\ ~parameter.escaped /\ Len(parameter.value) > 0
  THEN LET r == Call("execute", <<parameter>>, s)
       IN  IF r.ok THEN Call("fetch", <<r.val>>, r.s) ELSE r
  ELSE Ok(parameter, s)

(* /^C[AD]+R$/.test(name) *)
MatchesCadr(name) ==
  /\ Len(name) >= 3
  /\ name[1] = "C"
  /\ name[Len(name)] = "R"
  /\ \A k \in 2..(Len(name) - 1) : name[k] \in {"A", "D"}

LetterIsA(c) ==
  c = "A"

(* the loop of the cadr-family fallback; j is i + 1 of the code *)
CadrLoop(methodName, j, result, CAR, CDR, s) ==
  IF j < 2 THEN Ok(result[1], s)
  ELSE LET fn == IF LetterIsA(methodName[j]) THEN CAR ELSE CDR
           r  == IF fn.type = "NATIVE" THEN Call(fn.value, result, s)
                 ELSE Err(<<"TypeError: value is not a function">>, s)
       IN  IF r.ok THEN CadrLoop(methodName, j - 1, <<r.val>>, CAR, CDR, r.s) ELSE r

(* new Map(memory).set(key, value): the copy is taken from the caller's *)
(* Map before the argument is fetched                                   *)
ChildMemory(memory_, key, value) ==
  MapSet(memory_, key, value)

(* the body run against the caller's own Map, no copy taken *)
CallerMemoryShared(callerMem, childMem) ==
  childMem

(* the Map the caller holds when the call of a Method returns *)
CallerMemory(callerMem, childMem) ==
  callerMem

ApplyMethod(list, method, s) ==
  IF Len(list.value) < 2
  THEN Err(<<"A non-native function call must contain an argument.">>, s)
  ELSE LET r1 == Call("fetch", <<list.value[2]>>, s)
       IN  IF ~r1.ok THEN r1
           ELSE LET key   == toUpperCase(method.value[2].value[1].value)
                    child == ChildMemory(s.mem, key, r1.val)
                    r2    == Call("execute", <<method.value[3]>>, [r1.s EXCEPT !.mem = child, !.depth = @ + 1])
                    back  == CallerMemory(r1.s.mem, r2.s.mem)
                    ev    == [list |-> list, method |-> method, arg |-> r1.val, pre |-> r1.s.mem,
                              post |-> back, child |-> r2.s.mem, entry |-> child,
                              depth |-> s.depth, ok |-> r2.ok]
                IN  [r2 EXCEPT !.s = [@ EXCEPT !.mem = back, !.depth = s.depth,
                                                !.calls = Append(@, ev)]]

execute(list, s0) ==
  IF list.escaped \/ Len(list.value) = 0 THEN Ok(list, s0)
  ELSE IF list.value[1].type = "LIST" THEN Err(<<"A function call cannot be a list.">>, s0)
  ELSE
    LET s          == [s0 EXCEPT !.log = Append(@, list)]
        methodName == list.value[1].value
        key        == toUpperCase(methodName)
    IN  IF key \notin DOMAIN s.mem
        THEN IF MatchesCadr(toUpperCase(methodName))
             THEN IF kCAR \notin DOMAIN s.mem \/ kCDR \notin DOMAIN s.mem
                  THEN Err(<<"CAR or CDR not defined natively.">>, s)
                  ELSE CadrLoop(methodName, Len(methodName) - 1, Tail(list.value),
                                s.mem[kCAR], s.mem[kCDR], s)
             ELSE Err(<<"Unknown function call '">> \o methodName \o <<"'.">>, s)
        ELSE LET method == s.mem[key]
             IN  IF method.type = "NATIVE" THEN Call(method.value, Tail(list.value), s)
                 ELSE IF method.type = "METHOD" THEN ApplyMethod(list, method, s)
                 ELSE Err(<<"Illegal function call '">> \o methodName \o <<"'.">>, s)

(* the colour of the leaf tokens *)
Colored(code, text) ==
  <<code>> \o text \o <<"ESC[0m">>

(* value.value.map(element => toString(element, ...)).join(" ") *)
JoinElements(elements, k, acc, s, useColor) ==
  IF k > Len(elements) THEN Ok(acc, s)
  ELSE LET r == Call("toString", <<elements[k], useColor>>, s)
       IN  IF ~r.ok THEN r
           ELSE JoinElements(elements, k + 1,
                             (IF k = 1 THEN acc ELSE acc \o <<" ">>) \o r.val, r.s, useColor)

toString(parameter, s, useColor) ==
  LET f == Call("fetch", <<parameter>>, s) IN
  IF ~f.ok THEN f
  ELSE LET value == f.val IN
    CASE value.type = "ATOM" ->
           IF useColor
           THEN IF isTrue(value) \/ ~isNaN(NumberOfText(value.value))
                THEN Ok(Colored("ESC[93m", value.value), f.s)
                ELSE IF isNil(value) THEN Ok(Colored("ESC[90m", value.value), f.s)
                ELSE Ok(Colored("ESC[32m", value.value), f.s)
           ELSE Ok(value.value, f.s)
      [] value.type = "LIST" ->
           IF Len(value.value) = 0
           THEN Ok(IF useColor THEN Colored("ESC[90m", kNIL) ELSE kNIL, f.s)
           ELSE IF value.escaped
           THEN LET j == JoinElements(value.value, 1, <<>>, f.s, useColor)
                IN  IF ~j.ok THEN j ELSE Ok(<<"(", " ">> \o j.val \o <<" ", ")">>, j.s)
           ELSE LET e == Call("execute", <<value>>, f.s)
                IN  IF ~e.ok THEN e ELSE Call("toString", <<e.val, FALSE>>, e.s)
      [] value.type = "METHOD" ->
           LET text == <<"<Function: ">> \o value.value[1].value \o <<">">>
           IN  Ok(IF useColor THEN Colored("ESC[96m", text) ELSE text, f.s)
      [] OTHER ->
           LET text == <<"<Native: ", value.value, ">">>
           IN  Ok(IF useColor THEN Colored("ESC[96m", text) ELSE text, f.s)

-----------------------------------------------------------------------------
(* Natives *)

(* the loop of ADD and MULT: fetch, convert, test, accumulate *)
NumericLoop(fname, parameters, k, acc, s) ==
  IF k > Len(parameters) THEN Ok(Atom(FALSE, StringOf(acc)), s)
  ELSE LET f == Call("fetch", <<parameters[k]>>, s)
       IN  IF ~f.ok THEN f
           ELSE LET value == NumberOfValue(f.val)
                IN  IF isNaN(value)
                    THEN Err(<<fname, ": One or more parameters are not a number">>, f.s)
                    ELSE NumericLoop(fname, parameters, k + 1,
                                     IF fname = "ADD" THEN NumAdd(acc, value)
                                                      ELSE NumMul(acc, value), f.s)

ADD(parameters, s) ==
  IF Len(parameters) < 2 THEN Err(CountMsg("ADD", "2 or more arguments", parameters), s)
  ELSE NumericLoop("ADD", parameters, 1, Fin(0), s)

MULT(parameters, s) ==
  IF Len(parameters) < 2 THEN Err(CountMsg("MULT", "2 or more arguments", parameters), s)
  ELSE NumericLoop("MULT", parameters, 1, Fin(1), s)

(* the common shape of DIV, EQ, EXP and SUB: both arguments are fetched *)
(* and converted, then the left is tested, then the right                *)
Binary(fname, parameters, s, leftName, rightName) ==
  IF Len(parameters) # 2 THEN Err(CountMsg(fname, "2 arguments", parameters), s)
  ELSE LET l == Call("fetch", <<parameters[1]>>, s) IN
       IF ~l.ok THEN l
       ELSE LET r == Call("fetch", <<parameters[2]>>, l.s) IN
            IF ~r.ok THEN r
            ELSE LET left  == NumberOfValue(l.val)
                     right == NumberOfValue(r.val)
                 IN  IF isNaN(left) THEN Err(<<fname, ": ", leftName, " is not a number">>, r.s)
                     ELSE IF isNaN(right) THEN Err(<<fname, ": ", rightName, " is not a number">>, r.s)
                     ELSE Ok(<<left, right>>, r.s)

(* the common shape of NEG, POS and SQUARE *)
Unary(fname, parameters, s) ==
  IF Len(parameters) # 1 THEN Err(CountMsg(fname, "1 argument", parameters), s)
  ELSE LET f == Call("fetch", <<parameters[1]>>, s) IN
       IF ~f.ok THEN f
       ELSE LET value == NumberOfValue(f.val)
            IN  IF isNaN(value) THEN Err(<<fname, ": Parameter is not a number">>, f.s)
                ELSE Ok(value, f.s)

DIV(parameters, s) ==
  LET b == Binary("DIV", parameters, s, "Dividend", "Divisor")
  IN  IF ~b.ok THEN b ELSE Ok(Atom(FALSE, StringOf(NumDiv(b.val[1], b.val[2]))), b.s)

SUB(parameters, s) ==
  LET b == Binary("SUB", parameters, s, "Minuend", "Subtrahend")
  IN  IF ~b.ok THEN b ELSE Ok(Atom(FALSE, StringOf(NumSub(b.val[1], b.val[2]))), b.s)

EXP(parameters, s) ==
  LET b == Binary("EXP", parameters, s, "Base", "Exponent")
  IN  IF ~b.ok THEN b ELSE Ok(Atom(FALSE, StringOf(NumPow(b.val[1], b.val[2]))), b.s)

EQ(parameters, s) ==
  LET b == Binary("EQ", parameters, s, "Left-hand parameter", "Right-hand parameter")
  IN  IF ~b.ok THEN b ELSE Ok(IF NumEq(b.val[1], b.val[2]) THEN getTrue ELSE getNil, b.s)

NEG(parameters, s) ==
  LET u == Unary("NEG", parameters, s)
  IN  IF ~u.ok THEN u ELSE Ok(IF NumSign(u.val) < 0 THEN getTrue ELSE getNil, u.s)

POS(parameters, s) ==
  LET u == Unary("POS", parameters, s)
  IN  IF ~u.ok THEN u ELSE Ok(IF NumSign(u.val) >= 0 THEN getTrue ELSE getNil, u.s)

SQUARE(parameters, s) ==
  LET u == Unary("SQUARE", parameters, s)
  IN  IF ~u.ok THEN u ELSE Ok(Atom(FALSE, StringOf(NumMul(u.val, u.val))), u.s)

ATOM(parameters, s) ==
  IF Len(parameters) # 1 THEN Err(CountMsg("ATOM", "1 argument", parameters), s)
  ELSE LET f == Call("fetch", <<parameters[1]>>, s) IN
       IF ~f.ok THEN f
       ELSE Ok(IF f.val.type = "ATOM" \/ isTrue(f.val) \/ isNil(f.val)
               THEN getTrue ELSE getNil, f.s)

(* the copy { escaped, parent, type, value } of an element *)
CopyOf(element) ==
  [type |-> element.type, escaped |-> element.escaped, value |-> element.value]

CopyAll(elements) ==
  [k \in 1..Len(elements) |-> CopyOf(elements[k])]

ReverseSeq(elements) ==
  [k \in 1..Len(elements) |-> elements[Len(elements) + 1 - k]]

CAR(parameters, s) ==
  IF Len(parameters) # 1 THEN Err(CountMsg("CAR", "1 argument", parameters), s)
  ELSE LET f == Call("fetch", <<parameters[1]>>, s) IN
       IF ~f.ok THEN f
       ELSE IF f.val.type # "LIST" \/ Len(f.val.value) = 0
       THEN Err(<<"CAR: Parameter must be a non-NIL list.">>, f.s)
       ELSE Ok(CopyOf(f.val.value[1]), f.s)

CDR(parameters, s) ==
  IF Len(parameters) # 1 THEN Err(CountMsg("CDR", "1 argument", parameters), s)
  ELSE LET f == Call("fetch", <<parameters[1]>>, s) IN
       IF ~f.ok THEN f
       ELSE IF f.val.type # "LIST" \/ Len(f.val.value) = 0
       THEN Err(<<"CDR: Parameter must be a non-NIL list.">>, f.s)
       ELSE Ok(List(TRUE, CopyAll(Tail(f.val.value))), f.s)

CONS(parameters, s) ==
  IF Len(parameters) # 2 THEN Err(CountMsg("CONS", "2 arguments", parameters), s)
  ELSE LET left == Call("fetch", <<parameters[1]>>, s) IN
       IF ~left.ok THEN left
       ELSE LET right == Call("fetch", <<parameters[2]>>, left.s) IN
            IF ~right.ok THEN right
            ELSE IF right.val.type # "LIST"
            THEN Err(<<"CONS: Parameter must be a list.">>, right.s)
            ELSE Ok(List(TRUE, CopyAll(<<left.val>> \o right.val.value)), right.s)

REVERSE(parameters, s) ==
  IF Len(parameters) # 1 THEN Err(CountMsg("REVERSE", "1 argument", parameters), s)
  ELSE LET f == Call("fetch", <<parameters[1]>>, s) IN
       IF ~f.ok THEN f
       ELSE IF f.val.type # "LIST" THEN Err(<<"REVERSE: Parameter must be a list.">>, f.s)
       ELSE Ok(List(TRUE, ReverseSeq(CopyAll(f.val.value))), f.s)

EVAL(parameters, s) ==
  IF Len(parameters) # 1 THEN Err(CountMsg("EVAL", "1 argument", parameters), s)
  ELSE LET f == Call("fetch", <<parameters[1]>>, s) IN
       IF ~f.ok THEN f
       ELSE IF f.val.type = "LIST" THEN Call("execute", <<List(FALSE, CopyAll(f.val.value))>>, f.s)
       ELSE f

(* the checks of DEF on its three raw parameters *)
DefNameOk(methodName) ==
  methodName.type = "ATOM" /\ ~methodName.escaped

DefParametersOk(methodParameters) ==
  /\ methodParameters.type = "LIST"
  /\ ~methodParameters.escaped
  /\ Len(methodParameters.value) = 1
  /\ methodParameters.value[1].type = "ATOM"

DefDefinitionOk(methodDefinition) ==
  methodDefinition.type = "LIST" /\ ~methodDefinition.escaped

DEF_(parameters, s) ==
  IF Len(parameters) # 3 THEN Err(CountMsg("DEF", "3 arguments", parameters), s)
  ELSE IF ~DefNameOk(parameters[1]) THEN Err(<<"DEF: Illegal function name.">>, s)
  ELSE IF ~DefParametersOk(parameters[2]) THEN Err(<<"DEF: Illegal function arguments.">>, s)
  ELSE IF ~DefDefinitionOk(parameters[3]) THEN Err(<<"DEF: Illegal function definition.">>, s)
  ELSE LET method == Method(parameters[1], parameters[2], parameters[3])
       IN  Ok(method, WithMem(s, MapSet(s.mem, toUpperCase(parameters[1].value), method)))

PrintLoop(parameters, k, s) ==
  IF k > Len(parameters) THEN Ok(getNil, Write(s, <<"\n">>))
  ELSE LET t == Call("toString", <<parameters[k], s.color>>, s)
       IN  IF ~t.ok THEN t
           ELSE PrintLoop(parameters, k + 1, Write(t.s, t.val \o <<" ">>))

PRINT(parameters, s) ==
  PrintLoop(parameters, 1, s)

SetKeyOk(key) ==
  ~(key.type # "ATOM" \/ ~key.escaped \/ isTrue(key) \/ isNil(key))

SET(parameters, s) ==
  IF Len(parameters) # 2 THEN Err(CountMsg("SET", "2 arguments", parameters), s)
  ELSE LET key == Call("fetch", <<parameters[1]>>, s) IN
       IF ~key.ok THEN key
       ELSE LET value == Call("fetch", <<parameters[2]>>, key.s) IN
            IF ~value.ok THEN value
            ELSE IF ~SetKeyOk(key.val)
            THEN Err(<<"SET: Left-hand parameter is illegal.">>, value.s)
            ELSE Ok(value.val,
                    WithMem(value.s, MapSet(value.s.mem, toUpperCase(key.val.value), value.val)))

SetqKeyOk(key) ==
  ~(key.type # "ATOM" \/ key.escaped \/ isTrue(key) \/ isNil(key))

SETQ(parameters, s) ==
  IF Len(parameters) # 2 THEN Err(CountMsg("SETQ", "2 arguments", parameters), s)
  ELSE LET value == Call("fetch", <<parameters[2]>>, s) IN
       IF ~value.ok THEN value
       ELSE IF ~SetqKeyOk(parameters[1])
       THEN Err(<<"SETQ: Left-hand parameter is illegal.">>, value.s)
       ELSE Ok(value.val,
               WithMem(value.s, MapSet(value.s.mem, toUpperCase(parameters[1].value), value.val)))

Call(fname, parameters, s) ==
  CASE fname = "fetch"    -> fetch(parameters[1], s)
    [] fname = "execute"  -> execute(parameters[1], s)
    [] fname = "toString" -> toString(parameters[1], s, parameters[2])
    [] fname = "ADD"     -> ADD(parameters, s)
    [] fname = "ATOM"    -> ATOM(parameters, s)
    [] fname = "CAR"     -> CAR(parameters, s)
    [] fname = "CDR"     -> CDR(parameters, s)
    [] fname = "CONS"    -> CONS(parameters, s)
    [] fname = "DEF"     -> DEF_(parameters, s)
    [] fname = "EQ"      -> EQ(parameters, s)
    [] fname = "EVAL"    -> EVAL(parameters, s)
    [] fname = "EXP"     -> EXP(parameters, s)
    [] fname = "DIV"     -> DIV(parameters, s)
    [] fname = "MULT"    -> MULT(parameters, s)
    [] fname = "NEG"     -> NEG(parameters, s)
    [] fname = "POS"     -> POS(parameters, s)
    [] fname = "PRINT"   -> PRINT(parameters, s)
    [] fname = "REVERSE" -> REVERSE(parameters, s)
    [] fname = "SUB"     -> SUB(parameters, s)
    [] fname = "SQUARE"  -> SQUARE(parameters, s)
    [] fname = "SET"     -> SET(parameters, s)
    [] OTHER             -> SETQ(parameters, s)

-----------------------------------------------------------------------------
(* The driver *)

kADD ==
  <<"A","D","D">>

kATOM ==
  <<"A","T","O","M">>

kCONS ==
  <<"C","O","N","S">>

kDEF ==
  <<"D","E","F">>

kEQ ==
  <<"E","Q">>

kEVAL ==
  <<"E","V","A","L">>

kEXP ==
  <<"E","X","P">>

kDIV ==
  <<"D","I","V">>

kMULT ==
  <<"M","U","L","T">>

kNEG ==
  <<"N","E","G">>

kPOS ==
  <<"P","O","S">>

kPRINT ==
  <<"P","R","I","N","T">>

kREVERSE ==
  <<"R","E","V","E","R","S","E">>

kSUB ==
  <<"S","U","B">>

kSQUARE ==
  <<"S","Q","U","A","R","E">>

kSET ==
  <<"S","E","T">>

kSETQ ==
  <<"S","E","T","Q">>

(* defineNative(name, method, memory) *)
defineNative(name, fname, memory_) ==
  MapSet(memory_, toUpperCase(name), Native(fname))

EmptyMemory ==
  [k \in {} |-> getNil]

RECURSIVE DefineAll(_, _, _)
DefineAll(pairs, k, memory_) ==
  IF k > Len(pairs) THEN memory_
  ELSE DefineAll(pairs, k + 1, defineNative(pairs[k][1], pairs[k][2], memory_))

NativeTable ==
  << <<kADD, "ADD">>, <<<<"+">>, "ADD">>, <<kATOM, "ATOM">>, <<kCAR, "CAR">>,
     <<kCDR, "CDR">>, <<kCONS, "CONS">>, <<kDEF, "DEF">>, <<kEQ, "EQ">>,
     <<kEVAL, "EVAL">>, <<kEXP, "EXP">>, <<kDIV, "DIV">>, <<<<"/">>, "DIV">>,
     <<kMULT, "MULT">>, <<<<"*">>, "MULT">>, <<kNEG, "NEG">>, <<kPOS, "POS">>,
     <<kPRINT, "PRINT">>, <<kREVERSE, "REVERSE">>, <<kSUB, "SUB">>, <<<<"-">>, "SUB">>,
     <<kSQUARE, "SQUARE">>, <<kSET, "SET">>, <<kSETQ, "SETQ">> >>

(* .replace(/\r?\n/g, "") *)
StripNewlines(text) ==
  LET removed(k) == \/ text[k] = "\n"
                    \/ text[k] = "\r" /\ k < Len(text) /\ text[k + 1] = "\n"
      kept       == {k \in 1..Len(text) : ~removed(k)}
      rank(k)    == Cardinality({m \in kept : m <= k})
  IN  [j \in 1..Cardinality(kept) |-> text[CHOOSE k \in kept : rank(k) = j]]

NoError ==
  [raised |-> FALSE, message |-> <<>>]

Raised(msg) ==
  [raised |-> TRUE, message |-> msg]

NoOutcome ==
  [ran |-> FALSE, list |-> getNil, ok |-> TRUE, val |-> getNil,
   mem |-> EmptyMemory, out |-> <<>>]

(* Source texts are written from tokens *)
LP ==
  <<"(">>

RP ==
  <<")">>

SP ==
  <<" ">>

RECURSIVE JoinTokens(_, _)
JoinTokens(tokens, k) ==
  IF k > Len(tokens) THEN <<>>
  ELSE (IF k = 1 THEN <<>> ELSE SP) \o tokens[k] \o JoinTokens(tokens, k + 1)

(* the source of the list ( t1 t2 ... ) *)
Src(tokens) ==
  LP \o JoinTokens(tokens, 1) \o RP

(* the source of 'x *)
Q(x) ==
  <<"'">> \o x

(* The files the driver is run on *)

(* bounds: the number of middle letters of a C[AD]+R name, and the length *)
(* of the source texts over the five character classes of parse          *)
MaxCadr ==
  2

MaxSrcLen ==
  6

Tok(c) ==
  <<c>>

CadrNames ==
  UNION { { <<c>> \o m \o <<r>> : c \in {"c", "C"}, r \in {"r", "R"},
                                m \in [1..n -> {"a", "A", "d", "D"}] } : n \in 1..MaxCadr }

(* '(1 2 3) and '('(1 2) '(3 4) 5) *)
CadrArguments ==
  { Q(Src(<<Tok("1"), Tok("2"), Tok("3")>>)),
    Q(Src(<<Q(Src(<<Tok("1"), Tok("2")>>)), Q(Src(<<Tok("3"), Tok("4")>>)), Tok("5")>>)) }

(* (name arg) for every spelling of a cadr-family name *)
CadrPrograms ==
  { Src(<<name, arg>>) : name \in CadrNames, arg \in CadrArguments }

(* quoted lists: '(A) '(A B) '(1 2 3) '((A B) C) '('(A B) C) '(NIL B) '(() B) *)
QuotedLists ==
  { Q(Src(<<Tok("A")>>)),
    Q(Src(<<Tok("A"), Tok("B")>>)),
    Q(Src(<<Tok("1"), Tok("2"), Tok("3")>>)),
    Q(Src(<<Src(<<Tok("A"), Tok("B")>>), Tok("C")>>)),
    Q(Src(<<Q(Src(<<Tok("A"), Tok("B")>>)), Tok("C")>>)),
    Q(Src(<<kNIL, Tok("B")>>)),
    Q(Src(<<Src(<<>>), Tok("B")>>)) }

(* (CONS (CAR L) (CDR L)) *)
ConsPrograms ==
  { Src(<<kCONS, Src(<<kCAR, L>>), Src(<<kCDR, L>>)>>) : L \in QuotedLists }

(* left-hand sides: NIL nil Nil TRUE true 'X (A) '(A) () X 7 *)
LeftHandSides ==
  { kNIL, <<"n","i","l">>, <<"N","i","l">>, kTRUE, <<"t","r","u","e">>,
    Q(Tok("X")), Src(<<Tok("A")>>), Q(Src(<<Tok("A")>>)), Src(<<>>), Tok("X"), Tok("7") }

(* (SETQ lhs 5) *)
SetqPrograms ==
  { Src(<<kSETQ, lhs, Tok("5")>>) : lhs \in LeftHandSides }

(* parameter lists: (X) (NIL) (TRUE) (true) (1) ('X) (X Y) () 'X X '(X) *)
ParameterLists ==
  { Src(<<Tok("X")>>), Src(<<kNIL>>), Src(<<kTRUE>>), Src(<<<<"t","r","u","e">>>>),
    Src(<<Tok("1")>>), Src(<<Q(Tok("X"))>>), Src(<<Tok("X"), Tok("Y")>>), Src(<<>>),
    Q(Tok("X")), Tok("X"), Q(Src(<<Tok("X")>>)) }

(* (DEF F params (ADD 1 2)) (F 5) *)
DefPrograms ==
  { Src(<<kDEF, Tok("F"), params, Src(<<kADD, Tok("1"), Tok("2")>>)>>)
      \o SP \o Src(<<Tok("F"), Tok("5")>>) : params \in ParameterLists }

NumericNames ==
  { kADD, kSUB, kMULT, kDIV, kEXP, kSQUARE, kEQ, kPOS, kNEG }

(* arguments that do not fetch to a numeric atom: 'A TRUE NIL '() '(1) CAR F, *)
(* and 2, which does                                                          *)
NumericArguments ==
  { Q(Tok("A")), kTRUE, kNIL, Q(Src(<<>>)), Q(Src(<<Tok("1")>>)), kCAR, Tok("F"), Tok("2") }

(* (DEF F (X) (ADD X 1)) (op a) and (op a b) *)
NumericPrograms ==
  { Src(<<kDEF, Tok("F"), Src(<<Tok("X")>>), Src(<<kADD, Tok("X"), Tok("1")>>)>>)
      \o SP \o Src(<<op>> \o args) :
        op \in NumericNames,
        args \in { <<a>> : a \in NumericArguments }
                 \cup { <<a, b>> : a \in NumericArguments, b \in {Tok("3"), kNIL} }
                 \cup { <<Tok("3"), a>> : a \in NumericArguments } }

(* Methods whose bodies bind names *)
FramePrograms ==
  {
    (* (DEF G (Y) (SETQ B Y)) (DEF F (X) (G (SETQ A X))) (F 1) *)
    <<"(","D","E","F"," ","G"," ","(","Y",")"," ","(","S","E","T","Q"," ","B"," ","Y",")",")"," ","(","D","E","F"," ","F"," ","(","X",")"," ","(","G"," ","(","S","E","T","Q"," ","A"," ","X",")",")",")"," ","(","F"," ","1",")">>,
    (* (DEF F (X) (SET 'A X))\n(F (SETQ Q 2))\n(PRINT Q) *)
    <<"(","D","E","F"," ","F"," ","(","X",")"," ","(","S","E","T"," ","'","A"," ","X",")",")","\n","(","F"," ","(","S","E","T","Q"," ","Q"," ","2",")",")","\n","(","P","R","I","N","T"," ","Q",")">>,
    (* (DEF F (X) (DEF H (Z) (ADD Z 1))) (F 1) (H 1) *)
    <<"(","D","E","F"," ","F"," ","(","X",")"," ","(","D","E","F"," ","H"," ","(","Z",")"," ","(","A","D","D"," ","Z"," ","1",")",")",")"," ","(","F"," ","1",")"," ","(","H"," ","1",")">>,
    (* (SETQ A 1) (DEF F (X) (SETQ A (ADD A X))) (F 5) (PRINT A) *)
    <<"(","S","E","T","Q"," ","A"," ","1",")"," ","(","D","E","F"," ","F"," ","(","X",")"," ","(","S","E","T","Q"," ","A"," ","(","A","D","D"," ","A"," ","X",")",")",")"," ","(","F"," ","5",")"," ","(","P","R","I","N","T"," ","A",")">>,
    (* (SETQ X 1) (DEF F (X) (SETQ X 9)) (F 2) (PRINT X) *)
    <<"(","S","E","T","Q"," ","X"," ","1",")"," ","(","D","E","F"," ","F"," ","(","X",")"," ","(","S","E","T","Q"," ","X"," ","9",")",")"," ","(","F"," ","2",")"," ","(","P","R","I","N","T"," ","X",")">>,
    (* (DEF F (X) (ADD (SETQ A X) 'B)) (F 1) *)
    <<"(","D","E","F"," ","F"," ","(","X",")"," ","(","A","D","D"," ","(","S","E","T","Q"," ","A"," ","X",")"," ","'","B",")",")"," ","(","F"," ","1",")">>,
    (* (DEF F (N) (MULT N N)) (PRINT (F 7) (F 1 2)) (F) *)
    <<"(","D","E","F"," ","F"," ","(","N",")"," ","(","M","U","L","T"," ","N"," ","N",")",")"," ","(","P","R","I","N","T"," ","(","F"," ","7",")"," ","(","F"," ","1"," ","2",")",")"," ","(","F",")">>
  }

(* Methods applied to unquoted list arguments *)
ParameterPrograms ==
  {
    (* (DEF F (X) (ADD X X)) (PRINT (F (ADD 1 2))) *)
    <<"(","D","E","F"," ","F"," ","(","X",")"," ","(","A","D","D"," ","X"," ","X",")",")"," ","(","P","R","I","N","T"," ","(","F"," ","(","A","D","D"," ","1"," ","2",")",")",")">>,
    (* (DEF F (X) (PRINT X X)) (F (CONS (PRINT 'E) '(B))) *)
    <<"(","D","E","F"," ","F"," ","(","X",")"," ","(","P","R","I","N","T"," ","X"," ","X",")",")"," ","(","F"," ","(","C","O","N","S"," ","(","P","R","I","N","T"," ","'","E",")"," ","'","(","B",")",")",")">>,
    (* (SETQ N 0) (DEF F (X) (ADD X X X)) (F (SETQ N (ADD N 1))) (PRINT N) *)
    <<"(","S","E","T","Q"," ","N"," ","0",")"," ","(","D","E","F"," ","F"," ","(","X",")"," ","(","A","D","D"," ","X"," ","X"," ","X",")",")"," ","(","F"," ","(","S","E","T","Q"," ","N"," ","(","A","D","D"," ","N"," ","1",")",")",")"," ","(","P","R","I","N","T"," ","N",")">>,
    (* (DEF F (X) (CAR X)) (PRINT (F (CDR '(1 (ADD 1 2))))) *)
    <<"(","D","E","F"," ","F"," ","(","X",")"," ","(","C","A","R"," ","X",")",")"," ","(","P","R","I","N","T"," ","(","F"," ","(","C","D","R"," ","'","(","1"," ","(","A","D","D"," ","1"," ","2",")",")",")",")",")">>,
    (* (SET 'Y (CAR '((ADD 1 2)))) (DEF F (X) (CONS X X)) (PRINT (F (CAR '((REVERSE '(1 2))))) Y) *)
    <<"(","S","E","T"," ","'","Y"," ","(","C","A","R"," ","'","(","(","A","D","D"," ","1"," ","2",")",")",")",")"," ","(","D","E","F"," ","F"," ","(","X",")"," ","(","C","O","N","S"," ","X"," ","X",")",")"," ","(","P","R","I","N","T"," ","(","F"," ","(","C","A","R"," ","'","(","(","R","E","V","E","R","S","E"," ","'","(","1"," ","2",")",")",")",")",")"," ","Y",")">>,
    (* (DEF G (Y) (ADD Y Y)) (DEF F (X) (G (MULT X X))) (PRINT (F (G (SUB 3 1)))) *)
    <<"(","D","E","F"," ","G"," ","(","Y",")"," ","(","A","D","D"," ","Y"," ","Y",")",")"," ","(","D","E","F"," ","F"," ","(","X",")"," ","(","G"," ","(","M","U","L","T"," ","X"," ","X",")",")",")"," ","(","P","R","I","N","T"," ","(","F"," ","(","G"," ","(","S","U","B"," ","3"," ","1",")",")",")",")">>
  }

(* several statements, failures and syntax errors *)
DriverPrograms ==
  {
    (* (PRINT (ADD 1 2 3)) *)
    <<"(","P","R","I","N","T"," ","(","A","D","D"," ","1"," ","2"," ","3",")",")">>,
    (* (SETQ X 10)\r\n(PRINT (MULT X X)) *)
    <<"(","S","E","T","Q"," ","X"," ","1","0",")","\r","\n","(","P","R","I","N","T"," ","(","M","U","L","T"," ","X"," ","X",")",")">>,
    (* (PRINT 1) (PRINT X) (PRINT 2) *)
    <<"(","P","R","I","N","T"," ","1",")"," ","(","P","R","I","N","T"," ","X",")"," ","(","P","R","I","N","T"," ","2",")">>,
    (* (PRINT 1) (SETQ A 1) (CAR NIL) (PRINT A) (SETQ B 2) *)
    <<"(","P","R","I","N","T"," ","1",")"," ","(","S","E","T","Q"," ","A"," ","1",")"," ","(","C","A","R"," ","N","I","L",")"," ","(","P","R","I","N","T"," ","A",")"," ","(","S","E","T","Q"," ","B"," ","2",")">>,
    (* (PRINT 1) (PRINT 2) ) *)
    <<"(","P","R","I","N","T"," ","1",")"," ","(","P","R","I","N","T"," ","2",")"," ",")">>,
    (* (PRINT 1) (SETQ A 1 *)
    <<"(","P","R","I","N","T"," ","1",")"," ","(","S","E","T","Q"," ","A"," ","1">>,
    (* (SETQ A 1) (PRINT A) x *)
    <<"(","S","E","T","Q"," ","A"," ","1",")"," ","(","P","R","I","N","T"," ","A",")"," ","x">>,
    (* (PRINT a'b) *)
    <<"(","P","R","I","N","T"," ","a","'","b",")">>,
    (* (PRINT 'A (DIV 1 0) (SUB 1 3) PRINT '(A (REVERSE '(1 2))) NIL) ((A)) *)
    <<"(","P","R","I","N","T"," ","'","A"," ","(","D","I","V"," ","1"," ","0",")"," ","(","S","U","B"," ","1"," ","3",")"," ","P","R","I","N","T"," ","'","(","A"," ","(","R","E","V","E","R","S","E"," ","'","(","1"," ","2",")",")",")"," ","N","I","L",")"," ","(","(","A",")",")">>,
    (* (PRINT (EQ (ADD 2 3) 5) (ATOM 'X) (ATOM '(X)) (EVAL '(EXP 2 3)) (NEG 1) (POS 1) (SQUARE 3)) *)
    <<"(","P","R","I","N","T"," ","(","E","Q"," ","(","A","D","D"," ","2"," ","3",")"," ","5",")"," ","(","A","T","O","M"," ","'","X",")"," ","(","A","T","O","M"," ","'","(","X",")",")"," ","(","E","V","A","L"," ","'","(","E","X","P"," ","2"," ","3",")",")"," ","(","N","E","G"," ","1",")"," ","(","P","O","S"," ","1",")"," ","(","S","Q","U","A","R","E"," ","3",")",")">>,
    (* (PRINT (+ 1 2) (- 5 7) ( * 2 3) (/ 6 3) (cdr '(1 2))), * unspaced *)
    <<"(","P","R","I","N","T"," ","(","+"," ","1"," ","2",")"," ","(","-"," ","5"," ","7",")"," ","(","*"," ","2"," ","3",")"," ","(","/"," ","6"," ","3",")"," ","(","c","d","r"," ","'","(","1"," ","2",")",")",")">>
  }

Files ==
  CadrPrograms \cup ConsPrograms \cup SetqPrograms \cup DefPrograms
    \cup NumericPrograms \cup FramePrograms \cup ParameterPrograms \cup DriverPrograms

(* every text of at most MaxSrcLen characters over ' ( ) space and a *)
SmallSources ==
  UNION { [1..n -> {"'", "(", ")", " ", "a"}] : n \in 0..MaxSrcLen }

StartState ==
  /\ pc = "read"
  /\ program = <<>>
  /\ statements = <<>>
  /\ memory = EmptyMemory
  /\ i = 1
  /\ stdout = <<>>
  /\ error = NoError
  /\ exitCode = 0
  /\ executed = <<>>
  /\ log = <<>>
  /\ calls = <<>>
  /\ prev = [mem |-> EmptyMemory, out |-> <<>>]
  /\ last = NoOutcome

Init ==
  /\ file \in Files
  /\ flagUseColor \in BOOLEAN
  /\ StartState

(* line 151: the file is read and its newlines are removed *)
ReadFile ==
  /\ pc = "read"
  /\ program' = StripNewlines(file)
  /\ pc' = "parse"
  /\ UNCHANGED <<file, flagUseColor, statements, memory, i, stdout, error, exitCode,
                 executed, log, calls, prev, last>>

(* line 151: parse; a SyntaxError goes to the catch clause *)
Parse ==
  /\ pc = "parse"
  /\ LET r == parse(program)
     IN  IF r.ok
         THEN /\ statements' = r.statements
              /\ pc' = "define"
              /\ error' = error
         ELSE /\ statements' = statements
              /\ pc' = "catch"
              /\ error' = Raised(r.msg)
  /\ UNCHANGED <<file, flagUseColor, program, memory, i, stdout, exitCode,
                 executed, log, calls, prev, last>>

(* lines 154-176 *)
DefineNatives ==
  /\ pc = "define"
  /\ memory' = DefineAll(NativeTable, 1, memory)
  /\ i' = 1
  /\ pc' = "loop"
  /\ UNCHANGED <<file, flagUseColor, program, statements, stdout, error, exitCode,
                 executed, log, calls, prev, last>>

(* the error caught inside the loop, which goes on with the next statement *)
OnThrowContinue(k) ==
  [pc |-> "loop", i |-> k + 1]

(* where the driver goes when execute(statements[k], memory) has thrown: *)
(* the try block is left for the catch clause                            *)
OnThrow(k) ==
  [pc |-> "catch", i |-> k]

(* line 179, one iteration: execute(statements[i], memory) *)
ExecuteStatement ==
  /\ pc = "loop"
  /\ i <= Len(statements)
  /\ LET s0 == [mem |-> memory, out |-> stdout, log |-> log, calls |-> calls, depth |-> 0,
                color |-> flagUseColor]
     IN  \E r \in {Call("execute", <<statements[i]>>, s0)} :
         /\ memory' = r.s.mem
         /\ stdout' = r.s.out
         /\ log' = r.s.log
         /\ calls' = r.s.calls
         /\ prev' = [mem |-> memory, out |-> stdout]
         /\ last' = [ran |-> TRUE, list |-> statements[i], ok |-> r.ok, val |-> r.val,
                     mem |-> r.s.mem, out |-> r.s.out]
         /\ executed' = Append(executed, i)
         /\ IF r.ok
            THEN /\ i' = i + 1
                 /\ pc' = pc
                 /\ error' = error
            ELSE /\ i' = OnThrow(i).i
                 /\ pc' = OnThrow(i).pc
                 /\ error' = Raised(r.msg)
  /\ UNCHANGED <<file, flagUseColor, program, statements, exitCode>>

(* line 179: the loop ends *)
LoopEnd ==
  /\ pc = "loop"
  /\ i > Len(statements)
  /\ pc' = "exit"
  /\ UNCHANGED <<file, flagUseColor, program, statements, memory, i, stdout, error,
                 exitCode, executed, log, calls, prev, last>>

(* lines 181-184: the catch clause prints the two lines and falls through *)
Catch ==
  /\ pc = "catch"
  /\ stdout' = stdout
               \o (IF flagUseColor THEN <<"ESC[91m", "FATAL ERROR", "ESC[0m">>
                                   ELSE <<"FATAL ERROR">>) \o <<"\n">>
               \o <<"\t">> \o error.message \o <<"\n">>
  /\ pc' = "exit"
  /\ UNCHANGED <<file, flagUseColor, program, statements, memory, i, error, exitCode,
                 executed, log, calls, prev, last>>

(* the module has run to its end: the process ends with the status that *)
(* process.exitCode holds, which no line of the program sets            *)
Exit ==
  /\ pc = "exit"
  /\ pc' = "done"
  /\ exitCode' = exitCode
  /\ UNCHANGED <<file, flagUseColor, program, statements, memory, i, stdout, error,
                 executed, log, calls, prev, last>>

Next ==
  \/ ReadFile
  \/ Parse
  \/ DefineNatives
  \/ ExecuteStatement
  \/ LoopEnd
  \/ Catch
  \/ Exit

Spec ==
  Init /\ [][Next]_vars

(* the driver on the small source texts *)
InitParse ==
  /\ file \in SmallSources
  /\ flagUseColor = FALSE
  /\ StartState

SpecParse ==
  InitParse /\ [][Next]_vars

-----------------------------------------------------------------------------
(* Properties *)

(* the state a statement was executed from *)
Before ==
  [mem |-> prev.mem, out |-> prev.out, log |-> <<>>, calls |-> <<>>, depth |-> 0,
   color |-> flagUseColor]

HeadIs(list, name) ==
  /\ list.type = "LIST"
  /\ ~list.escaped
  /\ Len(list.value) > 0
  /\ list.value[1].type = "ATOM"
  /\ toUpperCase(list.value[1].value) = name

BoundToNative(mem, name, fname) ==
  /\ name \in DOMAIN mem
  /\ mem[name].type = "NATIVE"
  /\ mem[name].value = fname

UnquotedNonEmptyList(v) ==
  v.type = "LIST" /\ ~v.escaped /\ Len(v.value) > 0

OrdinarySymbol(a) ==
  /\ a.type = "ATOM"
  /\ ~a.escaped
  /\ toUpperCase(a.value) \notin {kTRUE, kNIL}
  /\ isNaN(NumberOfText(a.value))

IsNumericAtom(v) ==
  v.type = "ATOM" /\ ~isNaN(NumberOfText(v.value))

(* ---- C1 ---- *)

IsCadrCall(list) ==
  /\ list.type = "LIST"
  /\ ~list.escaped
  /\ Len(list.value) = 2
  /\ list.value[1].type = "ATOM"
  /\ MatchesCadr(toUpperCase(list.value[1].value))

(* (CAR (CDR ... arg)): the middle letters of name from position j down to *)
(* the first, the right-most innermost, A for CAR and D for CDR in either  *)
(* letter case                                                             *)
RECURSIVE Composition(_, _, _)
Composition(name, j, x) ==
  IF j < 2 THEN x
  ELSE Composition(name, j - 1,
         List(FALSE, <<Atom(FALSE, IF toUpperCaseChar(name[j]) = "A" THEN kCAR ELSE kCDR), x>>))

(* C1: when the statement just executed is (name arg), with name matching *)
(* C[AD]+R in any letter case and not bound, its outcome is the outcome   *)
(* of the nested composition of CAR and CDR read from the middle letters  *)
(* right to left: both fail, or both return the same value.               *)
C1_CadrEqualsComposition ==
  (/\ last.ran
   /\ IsCadrCall(last.list)
   /\ toUpperCase(last.list.value[1].value) \notin DOMAIN prev.mem)
  => LET name == last.list.value[1].value
         r    == execute(Composition(name, Len(name) - 1, last.list.value[2]), Before)
     IN  /\ r.ok = last.ok
         /\ r.ok => r.val = last.val

(* ---- C2 ---- *)

IsMethodCall(list, mem) ==
  /\ list.type = "LIST"
  /\ ~list.escaped
  /\ Len(list.value) >= 2
  /\ list.value[1].type = "ATOM"
  /\ toUpperCase(list.value[1].value) \in DOMAIN mem
  /\ mem[toUpperCase(list.value[1].value)].type = "METHOD"

(* C2: the caller's environment when the application of a Method returns  *)
(* (or throws) is the environment it had just after the argument was      *)
(* fetched, at every depth of calls; and the driver's memory after a      *)
(* statement that applies a Method is the memory after fetching the       *)
(* argument from the memory before.                                       *)
C2_CallerUnchanged ==
  /\ \A j \in 1..Len(calls) : calls[j].post = calls[j].pre
  /\ (last.ran /\ IsMethodCall(last.list, prev.mem))
     => LET f == fetch(last.list.value[2], Before)
        IN  f.ok => last.mem = f.s.mem

(* a Method applied inside another Method's body returned after its body *)
(* created a binding that the caller does not have                       *)
C2_Witness ==
  \E j \in 1..Len(calls) :
    /\ calls[j].depth >= 1
    /\ calls[j].ok
    /\ \E k \in DOMAIN calls[j].child :
         /\ k \notin DOMAIN calls[j].entry
         /\ k \notin DOMAIN calls[j].post

(* ---- C3 ---- *)

IsConsCarCdr(list) ==
  /\ HeadIs(list, kCONS)
  /\ Len(list.value) = 3
  /\ HeadIs(list.value[2], kCAR)
  /\ Len(list.value[2].value) = 2
  /\ HeadIs(list.value[3], kCDR)
  /\ Len(list.value[3].value) = 2
  /\ list.value[2].value[2] = list.value[3].value[2]
  /\ list.value[2].value[2].type = "LIST"
  /\ list.value[2].value[2].escaped
  /\ Len(list.value[2].value[2].value) > 0

(* C3: when the statement just executed is (CONS (CAR L) (CDR L)) for a *)
(* non-empty quoted list L, it succeeded and returned a list whose      *)
(* elements are those of L (kind, text and quote flag) in order.        *)
C3_ConsCarCdr ==
  (/\ last.ran
   /\ IsConsCarCdr(last.list)
   /\ BoundToNative(prev.mem, kCONS, "CONS")
   /\ BoundToNative(prev.mem, kCAR, "CAR")
   /\ BoundToNative(prev.mem, kCDR, "CDR"))
  => /\ last.ok
     /\ last.val.type = "LIST"
     /\ last.val.value = last.list.value[2].value[2].value

(* ---- C4 ---- *)

RejectedLeftHandSide(p) ==
  \/ p.type # "ATOM"
  \/ p.escaped
  \/ toUpperCase(p.value) \in {kTRUE, kNIL}

(* C4: when the statement just executed is (SETQ lhs v) and lhs is not an *)
(* unquoted atom or is TRUE or NIL in any letter case, it failed and the  *)
(* memory has no binding for the text of lhs that it had not before.      *)
C4_SetqRejects ==
  (/\ last.ran
   /\ HeadIs(last.list, kSETQ)
   /\ Len(last.list.value) = 3
   /\ BoundToNative(prev.mem, kSETQ, "SETQ")
   /\ RejectedLeftHandSide(last.list.value[2]))
  => /\ ~last.ok
     /\ last.list.value[2].type = "ATOM"
        => LET key == toUpperCase(last.list.value[2].value)
           IN  key \in DOMAIN last.mem
                 => key \in DOMAIN prev.mem /\ last.mem[key] = prev.mem[key]

(* ---- C5 ---- *)

MethodWellFormed(m) ==
  /\ Len(m.value[2].value) = 1
  /\ OrdinarySymbol(m.value[2].value[1])

MethodsWellFormed(mem) ==
  \A k \in DOMAIN mem : mem[k].type = "METHOD" => MethodWellFormed(mem[k])

(* C5: in the driver's memory and in every call frame, every Method has   *)
(* exactly one parameter, an unquoted atom that is not TRUE or NIL and is *)
(* not a number.                                                          *)
C5_MethodsWellFormed ==
  /\ MethodsWellFormed(memory)
  /\ \A j \in 1..Len(calls) :
       MethodsWellFormed(calls[j].entry) /\ MethodsWellFormed(calls[j].child)

(* ---- C6 ---- *)

NumericFunctions ==
  {"ADD", "SUB", "MULT", "DIV", "EXP", "SQUARE", "EQ", "POS", "NEG"}

IsNumericCall(list, mem) ==
  /\ list.type = "LIST"
  /\ ~list.escaped
  /\ Len(list.value) > 0
  /\ list.value[1].type = "ATOM"
  /\ toUpperCase(list.value[1].value) \in DOMAIN mem
  /\ mem[toUpperCase(list.value[1].value)].type = "NATIVE"
  /\ mem[toUpperCase(list.value[1].value)].value \in NumericFunctions

(* C6: when the statement just executed applies a numeric native and one *)
(* of its arguments fetches to something that is not a numeric atom, the *)
(* statement failed.                                                     *)
C6_NumericRejects ==
  (/\ last.ran
   /\ IsNumericCall(last.list, prev.mem)
   /\ \E k \in 2..Len(last.list.value) :
        LET f == fetch(last.list.value[k], Before)
        IN  f.ok /\ ~IsNumericAtom(f.val))
  => ~last.ok

(* ---- C7 ---- *)

C7_State ==
  /\ executed = [k \in 1..Len(executed) |-> k]
  /\ executed # <<>> => parse(program).ok /\ statements = parse(program).statements
  /\ (pc # "read" /\ ~parse(program).ok)
       => /\ executed = <<>>
          /\ memory = EmptyMemory
          /\ log = <<>>
          /\ pc \in {"parse", "catch"} => stdout = <<>>
  /\ error.raised => (pc \in {"catch", "exit", "done"} /\ (executed # <<>> => ~last.ok))
  /\ (~error.raised /\ pc \in {"loop", "exit", "done"}) => Len(executed) = i - 1

C7_Step ==
  /\ error.raised
       => /\ executed' = executed
          /\ memory' = memory
          /\ log' = log
          /\ stdout' # stdout => pc = "catch"
  /\ executed' # executed
       => /\ executed' = Append(executed, Len(executed) + 1)
          /\ prev'.mem = memory
          /\ prev'.out = stdout

(* C7: the statements are executed in source order, each from the memory  *)
(* the one before left, and only after the whole source has parsed; after *)
(* a syntax error nothing is executed, bound or printed; once an error is *)
(* raised no statement is executed and nothing but the catch clause       *)
(* writes.                                                                *)
C7_NothingAfterFailure ==
  [](C7_State) /\ [][C7_Step]_vars

(* the third of five statements failed, after two were executed, and the *)
(* driver has ended                                                      *)
C7_Witness ==
  /\ pc = "done"
  /\ error.raised
  /\ Len(executed) = 3
  /\ Len(statements) = 5

(* ---- C8 ---- *)

(* C8: the process ends with status zero exactly when no parse or *)
(* execution error was raised.                                    *)
C8_ExitStatus ==
  pc = "done" => ((exitCode = 0) <=> ~error.raised)

(* ---- C9 ---- *)

NoUnquotedList(mem) ==
  \A k \in DOMAIN mem : ~UnquotedNonEmptyList(mem[k])

Occurrences(seq, x) ==
  Cardinality({k \in 1..Len(seq) : seq[k] = x})

Frame(mem) ==
  [mem |-> mem, out |-> <<>>, log |-> <<>>, calls |-> <<>>, depth |-> 0, color |-> FALSE]

(* C9: for every application of a Method whose parameter is an ordinary   *)
(* symbol to an unquoted list argument, execute has applied that argument *)
(* once per application, the frame binds the parameter to the fetched     *)
(* value, and fetching the parameter in the frame returns that value and  *)
(* executes, writes and binds nothing; no environment binds an unquoted   *)
(* non-empty list and no fetched argument is one.                         *)
C9_ArgumentFetchedOnce ==
  /\ \A j \in 1..Len(calls) :
       LET ev == calls[j]
           a  == ev.list.value[2]
           p  == ev.method.value[2].value[1]
       IN  (OrdinarySymbol(p) /\ UnquotedNonEmptyList(a))
           => /\ Occurrences(log, a)
                   = Cardinality({m \in 1..Len(calls) : calls[m].list.value[2] = a})
              /\ ev.entry[toUpperCase(p.value)] = ev.arg
              /\ LET r == fetch(p, Frame(ev.entry))
                 IN  r.ok /\ r.val = ev.arg /\ r.s = Frame(ev.entry)
  /\ NoUnquotedList(memory)
  /\ \A j \in 1..Len(calls) :
       /\ ~UnquotedNonEmptyList(calls[j].arg)
       /\ NoUnquotedList(calls[j].pre)
       /\ NoUnquotedList(calls[j].entry)
       /\ NoUnquotedList(calls[j].child)

(* a Method whose body names its parameter at least twice returned from *)
(* an application to an unquoted list argument                          *)
C9_Witness ==
  \E j \in 1..Len(calls) :
    LET ev == calls[j]
        p  == ev.method.value[2].value[1]
        b  == ev.method.value[3].value
    IN  /\ ev.ok
        /\ OrdinarySymbol(p)
        /\ UnquotedNonEmptyList(ev.list.value[2])
        /\ Cardinality({k \in 1..Len(b) : b[k] = p}) >= 2

(* ---- C10 ---- *)

RECURSIVE AtomsQuoted(_)
AtomsQuoted(node) ==
  IF node.type = "ATOM" THEN node.escaped
  ELSE \A k \in 1..Len(node.value) : AtomsQuoted(node.value[k])

RECURSIVE QuoteReachesAtoms(_)
QuoteReachesAtoms(list) ==
  /\ list.escaped => AtomsQuoted(list)
  /\ \A k \in 1..Len(list.value) :
       list.value[k].type = "LIST" => QuoteReachesAtoms(list.value[k])

(* the quote flags of the lists of a tree, in the order of their "(" *)
RECURSIVE ListFlags(_)
RECURSIVE ListFlagsOfAll(_, _)
ListFlagsOfAll(nodes, k) ==
  IF k > Len(nodes) THEN <<>>
  ELSE (IF nodes[k].type = "LIST" THEN ListFlags(nodes[k]) ELSE <<>>)
         \o ListFlagsOfAll(nodes, k + 1)

ListFlags(list) ==
  <<list.escaped>> \o ListFlagsOfAll(list.value, 1)

(* the "(" at position k of src is written after an apostrophe that no *)
(* atom and no other "(" has taken                                     *)
WrittenQuoted(src, k) ==
  \E j \in 1..(k - 1) :
    /\ src[j] = "'"
    /\ \A m \in (j + 1)..(k - 1) : src[m] \in {"'", " ", ")"}

WrittenFlags(src) ==
  LET opens   == {k \in 1..Len(src) : src[k] = "("}
      rank(k) == Cardinality({m \in opens : m <= k})
  IN  [n \in 1..Cardinality(opens) |-> WrittenQuoted(src, CHOOSE k \in opens : rank(k) = n)]

ListsQuotedAsWritten ==
  ListFlagsOfAll(statements, 1) = WrittenFlags(program)

(* C10: in the statements parse returned, every atom at any depth inside *)
(* a quoted list is quoted, and a list is quoted exactly when it was     *)
(* written after an apostrophe.                                          *)
C10_QuotePropagation ==
  Len(statements) > 0
    => /\ \A k \in 1..Len(statements) : QuoteReachesAtoms(statements[k])
       /\ ListsQuotedAsWritten

-----------------------------------------------------------------------------
(* The sources that parse accepts, and what it returns for them *)

IsAtomCharacter(c) ==
  c \notin {"'", "(", ")", " "}

(* the number of lists open after the first k characters of src *)
Depth(src, k) ==
  Cardinality({j \in 1..k : src[j] = "("}) - Cardinality({j \in 1..k : src[j] = ")"})

(* an atom is in progress before position k *)
AtomInProgress(src, k) ==
  k > 1 /\ IsAtomCharacter(src[k - 1])

WellFormedSource(src) ==
  /\ \A k \in 1..Len(src) : src[k] = ")" => Depth(src, k - 1) > 0
  /\ \A k \in 1..Len(src) : IsAtomCharacter(src[k]) => Depth(src, k - 1) > 0
  /\ \A k \in 1..Len(src) : src[k] = "'" => ~AtomInProgress(src, k)
  /\ Depth(src, Len(src)) = 0

(* the parentheses and the maximal runs of atom characters of src, in *)
(* source order                                                       *)
RECURSIVE TokensFrom(_, _, _)
TokensFrom(src, k, run) ==
  IF k > Len(src) THEN (IF run = <<>> THEN <<>> ELSE <<run>>)
  ELSE IF IsAtomCharacter(src[k]) THEN TokensFrom(src, k + 1, Append(run, src[k]))
  ELSE (IF run = <<>> THEN <<>> ELSE <<run>>)
       \o (IF src[k] \in {"(", ")"} THEN << <<src[k]>> >> ELSE <<>>)
       \o TokensFrom(src, k + 1, <<>>)

(* the parentheses and atoms of parsed lists, in order *)
RECURSIVE Flatten(_)
Flatten(values) ==
  IF values = <<>> THEN <<>>
  ELSE (IF Head(values).type = "ATOM" THEN <<Head(values).value>>
        ELSE <<LP>> \o Flatten(Head(values).value) \o <<RP>>)
       \o Flatten(Tail(values))

(* the positions where a top-level list closes *)
TopLevelCloses(src) ==
  {k \in 1..Len(src) : src[k] = ")" /\ Depth(src, k) = 0}

(* while parse runs, an atom in progress has an open enclosing list *)
AtomHasOpenList(src) ==
  \A k \in 0..Len(src) :
    \E st \in {ParseLoop(ParseInit, src, 1, k)} :
      st.ok /\ st.hasAtom => Len(st.open) > 0

(* C11: parse returns normally exactly when no ")" and no atom character *)
(* occurs while no list is open, no apostrophe occurs while an atom is   *)
(* in progress, and no list is open after the last character; what it    *)
(* returns is one statement per closed top-level list, in source order,  *)
(* whose atoms are the maximal runs of atom characters.                  *)
C11_ParseAccepts ==
  [][pc = "parse"
       => /\ (pc' = "define") <=> WellFormedSource(program)
          /\ pc' # "define" => pc' = "catch" /\ error'.raised
          /\ AtomHasOpenList(program)
          /\ pc' = "define"
               => /\ \A k \in 1..Len(statements') : statements'[k].type = "LIST"
                  /\ Len(statements') = Cardinality(TopLevelCloses(program))
                  /\ Flatten(statements') = TokensFrom(program, 1, <<>>)]_vars

(* parse has returned two statements, the first with an atom of two *)
(* characters or more                                               *)
C11_Witness ==
  /\ pc = "define"
  /\ Len(statements) >= 2
  /\ \E j \in 1..Len(statements[1].value) :
       /\ statements[1].value[j].type = "ATOM"
       /\ Len(statements[1].value[j].value) >= 2

====
